---- MODULE Spec2Model ----
(***************************************************************************)
(* Model of laptop_battery_monitor.py: the TrayMonitor object, its         *)
(* background _monitor_loop threads, the tray callbacks that start and     *)
(* stop monitoring, the settings window's save, and the configuration      *)
(* (in memory, module-level DEFAULT_CONFIG, and the file on disk).         *)
(*                                                                         *)
(* Time is counted in clock steps of 1/Hz second, so that time.time() has  *)
(* a fractional part and int(now - start) really truncates.                *)
(***************************************************************************)
EXTENDS Integers, Sequences, FiniteSets, TLC

\* ------------------------------------------------------------------ bounds
\* number of things the user does that change the program's state: presses
\* of Save in the settings window, starts of monitoring (each creates a
\* _monitor_loop thread), and changes made to the configuration file by hand
MaxActions == 3
\* index of the last instant the clock can show (see TimePoint)
MaxTick == 2
\* clock steps per second
Hz == 2

\* ------------------------------------------------------- program constants
DefaultThreshold == 20
DefaultInterval == 1
DefaultResendMinutes == 5
SecondsPerMinute == 60
\* Python's None, for the optional timestamps and unset locals
None == -1

\* ------------------------------------------------------------ input domains
Threads == 1..MaxActions
\* one default resend interval, in clock steps
EpochLen == DefaultResendMinutes * SecondsPerMinute * Hz
\* the instants the clock is read at: the start of each resend window and one
\* clock step (a fraction of a second) after it
TimePoint(k) == (k \div 2) * EpochLen + (k % 2)
TimePoints == {TimePoint(k) : k \in 0..MaxTick}
PercentVals == {DefaultThreshold, DefaultThreshold + 5}
Keys == {"threshold", "interval", "telegram_enabled", "resend_minutes"}

VARIABLES
    config,            \* self.config, the dict shared with the settings window
    file,              \* content of monitor_config.json (a dict; empty = no file)
    DEFAULT_CONFIG,    \* the module-level dict load_config updates in place
    _running,
    _stop_event,
    _thread,           \* the thread start_monitoring created last, or None
    _last_alert_time,
    _low_start_time,
    _was_low,
    pc,                \* position of each _monitor_loop thread
    frame,             \* local variables of each _monitor_loop thread
    ui,                \* position of the tray thread (menu callbacks)
    settings,          \* position of the settings window thread
    acts,              \* Save presses, thread starts and file edits so far
    clock,             \* time.time()
    out                \* what the last step emitted

vars == <<config, file, DEFAULT_CONFIG, _running, _stop_event, _thread,
          _last_alert_time, _low_start_time, _was_low, pc, frame, ui,
          settings, acts, clock, out>>

mon == <<_last_alert_time, _low_start_time, _was_low>>
cfgs == <<config, file, DEFAULT_CONFIG>>
ctl == <<_running, _stop_event, _thread, ui>>

\* ------------------------------------------------------------------ values
ConfigDict(th, iv, te, rm) ==
    [k \in Keys |-> CASE k = "threshold" -> th
                      [] k = "interval" -> iv
                      [] k = "telegram_enabled" -> te
                      [] OTHER -> rm]

\* DEFAULT_CONFIG as the module defines it
Defaults == ConfigDict(DefaultThreshold, DefaultInterval, FALSE, DefaultResendMinutes)

\* the settings a user saves: the defaults, and the defaults with one entry of
\* the form changed (Telegram alerts on, resend 0 minutes, a threshold above
\* 100 %, an interval of 0 seconds)
ConfigDicts ==
    {Defaults,
     ConfigDict(DefaultThreshold, DefaultInterval, TRUE, DefaultResendMinutes),
     ConfigDict(DefaultThreshold, DefaultInterval, FALSE, 0),
     ConfigDict(150, DefaultInterval, FALSE, DefaultResendMinutes),
     ConfigDict(DefaultThreshold, 0, FALSE, DefaultResendMinutes)}

NoFile == [k \in {} |-> 0]

\* what monitor_config.json can be made to hold from outside the program: no
\* file at all (deleted), or a hand-written file with a single field
ExternalFiles == {NoFile, [k \in {"resend_minutes"} |-> DefaultResendMinutes]}

\* dict.update
Update(d, u) ==
    [k \in (DOMAIN d) \cup (DOMAIN u) |-> IF k \in DOMAIN u THEN u[k] ELSE d[k]]

\* what psutil.sensors_battery() gives: None, or percent and power_plugged
NoInfo == [avail |-> FALSE, percent |-> 0, plugged |-> FALSE]
Samples == {[avail |-> TRUE, percent |-> p, plugged |-> g] :
               p \in PercentVals, g \in BOOLEAN}

\* the locals of _monitor_loop; a local holds None until it is assigned
EmptyFrame == [interval |-> None, threshold |-> None, resend_seconds |-> None,
               info |-> NoInfo, now |-> None, duration |-> None, i |-> 0]

\* messages handed to _notify and to send_telegram_async
Msg(kind, percent, duration) == [kind |-> kind, percent |-> percent, duration |-> duration]
LowMsg(percent) == Msg("low", percent, None)
RecMsg(percent, duration) == Msg("recovered", percent, duration)
StartedMsg == Msg("started", 0, None)
StoppedMsg == Msg("stopped", 0, None)

\* the record of one step: the call that came back without doing anything (if
\* the step was one: "start" or "stop" returning at its first test,
\* "no_battery" for a cycle that got no battery information), what went to
\* _notify and what went out through telegram_send
Emit(noop, notified, telegram) ==
    [noop |-> noop, notified |-> notified, telegram |-> telegram]
Quiet == Emit("none", <<>>, <<>>)
Notified(msg) == Emit("none", <<msg>>, <<>>)

\* -------------------------------------------------------------------- Init
\* The state after main's load_config() and TrayMonitor.__init__ on a machine
\* where nothing was saved yet.
Init ==
    /\ file = NoFile
    /\ DEFAULT_CONFIG = Update(Defaults, file)
    /\ config = DEFAULT_CONFIG
    /\ _running = FALSE
    /\ _stop_event = FALSE
    /\ _thread = None
    /\ _last_alert_time = None
    /\ _low_start_time = None
    /\ _was_low = FALSE
    /\ pc = [t \in Threads |-> "unborn"]
    /\ frame = [t \in Threads |-> EmptyFrame]
    /\ ui = "idle"
    /\ settings = "idle"
    /\ acts = 0
    /\ clock = 0
    /\ out = Quiet

\* ------------------------------------------------ load_config, save_config
\* load_config: the file's fields are written into the module-level
\* DEFAULT_CONFIG (an unreadable file leaves it alone); a copy is returned.
load_config_defaults == Update(DEFAULT_CONFIG, file)

\* -------------------------------------------------- the loop's decisions
\* line 437
IsLow(plugged, percent, threshold) == (~plugged) /\ (percent <= threshold)

\* line 439; now and last in clock steps, resend_seconds in seconds
AlertDue(last, now, resend_seconds) ==
    (last = None) \/ ((now - last) >= resend_seconds * Hz)

\* variant of RecoveryDue: the test of line 451 without `self._was_low`
RecoveryDueWithoutLow(was_low, percent, threshold) == percent > threshold

\* line 451
RecoveryDue(was_low, percent, threshold) == was_low /\ (percent > threshold)

\* lines 453-455: int(now - self._low_start_time)
Duration(start, now) == IF start # None THEN (now - start) \div Hz ELSE None

\* variant of TelegramEnabled: the setting is not consulted and every alert
\* goes through send_telegram_async
TelegramAlways == TRUE

\* lines 441, 465: self.config.get('telegram_enabled')
TelegramEnabled == config["telegram_enabled"]

\* variant of LowWrites: line 448 indented under the `if` of line 439, so that
\* _was_low is set only on the cycles that alert
LowWritesUnderAlert(now, alerted) ==
    /\ _last_alert_time' = IF alerted THEN now ELSE _last_alert_time
    /\ _low_start_time' = IF _low_start_time = None THEN now ELSE _low_start_time
    /\ _was_low' = alerted

\* lines 444-448: the low branch's writes, after the alert (if any) went out
LowWrites(now, alerted) ==
    /\ _last_alert_time' = IF alerted THEN now ELSE _last_alert_time
    /\ _low_start_time' = IF _low_start_time = None THEN now ELSE _low_start_time
    /\ _was_low' = TRUE

\* variant of NotLowWrites: an unplugged recovery clears the alert time as
\* well, as the plugged branch does
NotLowWritesClearsAlertTime(plugged, percent, threshold) ==
    IF plugged \/ percent > threshold
    THEN /\ _was_low' = FALSE
         /\ _last_alert_time' = None
         /\ _low_start_time' = None
    ELSE UNCHANGED mon

\* lines 468-477: the other branch's writes, after the recovery notice (if any)
NotLowWrites(plugged, percent, threshold) ==
    IF plugged
    THEN /\ _was_low' = FALSE
         /\ _last_alert_time' = None
         /\ _low_start_time' = None
    ELSE IF percent > threshold
         THEN /\ _was_low' = FALSE
              /\ _low_start_time' = None
              /\ UNCHANGED _last_alert_time
         ELSE UNCHANGED mon

\* ---------------------------------------------------- _monitor_loop thread
\* The locals once lines 428-477 are through: the for loop reads interval and
\* its own counter; every other local is reassigned before it is read again,
\* and is kept here only while the cycle is still in those lines.
Sleeping(f) == [EmptyFrame EXCEPT !.interval = f.interval]

\* line 479: where the thread stands after i rounds of the for loop: in the
\* loop while range(interval) lasts, at the while test once it is used up
ForLoop(f, i) == IF i < f.interval THEN "sleep" ELSE "while"
AfterCycle(f) == IF ForLoop(f, 0) = "sleep" THEN Sleeping(f) ELSE EmptyFrame

\* line 419: the while test finds the stop event set; the thread ends
LoopExit(t) ==
    /\ pc[t] = "while"
    /\ _stop_event
    /\ pc' = [pc EXCEPT ![t] = "done"]
    /\ out' = Quiet
    /\ UNCHANGED <<cfgs, ctl, mon, frame, settings, acts, clock>>

\* lines 419-426: a cycle begins; the file is read into DEFAULT_CONFIG and
\* from there into self.config, and interval/threshold/resend are taken
LoadConfig(t) ==
    /\ pc[t] = "while"
    /\ ~_stop_event
    /\ DEFAULT_CONFIG' = load_config_defaults
    /\ config' = Update(config, DEFAULT_CONFIG')
    /\ frame' = [frame EXCEPT ![t] =
                    [EmptyFrame EXCEPT
                        !.interval = config'["interval"],
                        !.threshold = config'["threshold"],
                        !.resend_seconds = config'["resend_minutes"] * SecondsPerMinute]]
    /\ pc' = [pc EXCEPT ![t] = "loaded"]
    /\ out' = Quiet
    /\ UNCHANGED <<file, ctl, mon, settings, acts, clock>>

\* variant of TickUnavailable: a missing battery is taken for "not low" and
\* the low state is cleared
TickUnavailableAsNotLow(t) ==
    /\ pc[t] = "loaded"
    /\ frame' = [frame EXCEPT ![t] = AfterCycle(frame[t])]
    /\ pc' = [pc EXCEPT ![t] = ForLoop(frame[t], 0)]
    /\ out' = Emit("no_battery", <<>>, <<>>)
    /\ _was_low' = FALSE
    /\ _low_start_time' = None
    /\ UNCHANGED <<cfgs, ctl, _last_alert_time, settings, acts, clock>>

\* lines 428-429: _get_battery_info() returns None; nothing is evaluated
TickUnavailable(t) ==
    /\ pc[t] = "loaded"
    /\ frame' = [frame EXCEPT ![t] = AfterCycle(frame[t])]
    /\ pc' = [pc EXCEPT ![t] = ForLoop(frame[t], 0)]
    /\ out' = Emit("no_battery", <<>>, <<>>)
    /\ UNCHANGED <<cfgs, ctl, mon, settings, acts, clock>>

\* lines 437-448: an unplugged sample at or below the threshold
TickLow(t, s) ==
    /\ pc[t] = "loaded"
    /\  /\ IsLow(s.plugged, s.percent, frame[t].threshold)
        /\ IF AlertDue(_last_alert_time, clock, frame[t].resend_seconds)
           THEN IF TelegramEnabled
                THEN \* send_telegram_async is running; nothing is written yet
                     /\ frame' = [frame EXCEPT ![t].info = s, ![t].now = clock]
                     /\ pc' = [pc EXCEPT ![t] = "send_low"]
                     /\ out' = Quiet
                     /\ UNCHANGED mon
                ELSE /\ frame' = [frame EXCEPT ![t] = AfterCycle(frame[t])]
                     /\ pc' = [pc EXCEPT ![t] = ForLoop(frame[t], 0)]
                     /\ out' = Emit("none", <<LowMsg(s.percent)>>, <<>>)
                     /\ LowWrites(clock, TRUE)
           ELSE /\ frame' = [frame EXCEPT ![t] = AfterCycle(frame[t])]
                /\ pc' = [pc EXCEPT ![t] = ForLoop(frame[t], 0)]
                /\ out' = Quiet
                /\ LowWrites(clock, FALSE)
    /\ UNCHANGED <<cfgs, ctl, settings, acts, clock>>

\* lines 449-477: a sample that is plugged or above the threshold
TickNotLow(t, s) ==
    /\ pc[t] = "loaded"
    /\  /\ ~IsLow(s.plugged, s.percent, frame[t].threshold)
        /\ IF RecoveryDue(_was_low, s.percent, frame[t].threshold)
           THEN IF TelegramEnabled
                THEN /\ frame' = [frame EXCEPT ![t].info = s, ![t].now = clock,
                                        ![t].duration = Duration(_low_start_time, clock)]
                     /\ pc' = [pc EXCEPT ![t] = "send_rec"]
                     /\ out' = Quiet
                     /\ UNCHANGED mon
                ELSE /\ frame' = [frame EXCEPT ![t] = AfterCycle(frame[t])]
                     /\ pc' = [pc EXCEPT ![t] = ForLoop(frame[t], 0)]
                     /\ out' = Emit("none", <<RecMsg(s.percent, Duration(_low_start_time, clock))>>,
                                  <<>>)
                     /\ NotLowWrites(s.plugged, s.percent, frame[t].threshold)
           ELSE /\ frame' = [frame EXCEPT ![t] = AfterCycle(frame[t])]
                /\ pc' = [pc EXCEPT ![t] = ForLoop(frame[t], 0)]
                /\ out' = Quiet
                /\ NotLowWrites(s.plugged, s.percent, frame[t].threshold)
    /\ UNCHANGED <<cfgs, ctl, settings, acts, clock>>

\* variant of SendReturn: the message is notified locally a second time by
\* the sending call itself
SendReturnNotifiesTwice(t) ==
    /\ pc[t] \in {"send_low", "send_rec"}
    /\ LET f == frame[t] IN
       IF pc[t] = "send_low"
       THEN /\ out' = Emit("none", <<LowMsg(f.info.percent), LowMsg(f.info.percent)>>,
                                        <<LowMsg(f.info.percent)>>)
            /\ LowWrites(f.now, TRUE)
       ELSE /\ out' = Emit("none", <<RecMsg(f.info.percent, f.duration),
                                        RecMsg(f.info.percent, f.duration)>>,
                                        <<RecMsg(f.info.percent, f.duration)>>)
            /\ NotLowWrites(f.info.plugged, f.info.percent, f.threshold)
    /\ frame' = [frame EXCEPT ![t] = AfterCycle(frame[t])]
    /\ pc' = [pc EXCEPT ![t] = ForLoop(frame[t], 0)]
    /\ UNCHANGED <<cfgs, ctl, settings, acts, clock>>

\* lines 442-448 and 466-477: send_telegram_async returns; _notify and the
\* branch's writes follow, with the locals taken when the sample was read
SendReturn(t) ==
    /\ pc[t] \in {"send_low", "send_rec"}
    /\ LET f == frame[t] IN
       IF pc[t] = "send_low"
       THEN /\ out' = Emit("none", <<LowMsg(f.info.percent)>>,
                                        <<LowMsg(f.info.percent)>>)
            /\ LowWrites(f.now, TRUE)
       ELSE /\ out' = Emit("none", <<RecMsg(f.info.percent, f.duration)>>,
                                        <<RecMsg(f.info.percent, f.duration)>>)
            /\ NotLowWrites(f.info.plugged, f.info.percent, f.threshold)
    /\ frame' = [frame EXCEPT ![t] = AfterCycle(frame[t])]
    /\ pc' = [pc EXCEPT ![t] = ForLoop(frame[t], 0)]
    /\ UNCHANGED <<cfgs, ctl, settings, acts, clock>>

\* lines 179-185: send_telegram_async raises (telegram_send is None, the conf
\* is wrong, the network is down); nothing in _monitor_loop catches it
SendRaise(t) ==
    /\ pc[t] \in {"send_low", "send_rec"}
    /\ pc' = [pc EXCEPT ![t] = "crashed"]
    /\ frame' = [frame EXCEPT ![t] = EmptyFrame]
    /\ out' = Quiet
    /\ UNCHANGED <<cfgs, ctl, mon, settings, acts, clock>>

\* lines 479-482: one time.sleep(1) of the for loop
SleepStep(t) ==
    /\ pc[t] = "sleep"
    /\ frame[t].i < frame[t].interval
    /\ ~_stop_event
    /\ \E c \in TimePoints : c >= clock + Hz /\ clock' = c
    /\ pc' = [pc EXCEPT ![t] = ForLoop(frame[t], frame[t].i + 1)]
    /\ frame' = [frame EXCEPT ![t] =
                    IF ForLoop(frame[t], frame[t].i + 1) = "sleep"
                    THEN [frame[t] EXCEPT !.i = @ + 1]
                    ELSE EmptyFrame]
    /\ out' = Quiet
    /\ UNCHANGED <<cfgs, ctl, mon, settings, acts>>

\* lines 480-481: break, the stop event is set
ForBreak(t) ==
    /\ pc[t] = "sleep"
    /\ _stop_event
    /\ pc' = [pc EXCEPT ![t] = "while"]
    /\ frame' = [frame EXCEPT ![t] = EmptyFrame]
    /\ out' = Quiet
    /\ UNCHANGED <<cfgs, ctl, mon, settings, acts, clock>>

\* ------------------------------------------------- tray thread (callbacks)
FreeThreads == {t \in Threads : pc[t] = "unborn"}
NewThread == CHOOSE t \in FreeThreads : \A u \in FreeThreads : t <= u
Finished(t) == pc[t] \in {"done", "crashed"}
\* the calls of a cycle that can outlast join's two seconds
Blocked(t) == pc[t] \in {"send_low", "send_rec"}

\* variant of StartReturnsEarly: start_monitoring without its first test
StartNeverReturnsEarly == FALSE

\* line 283
StartReturnsEarly == _running

\* line 292
StopReturnsEarly == ~_running

\* lines 282-289
StartBody(call) ==
    IF StartReturnsEarly
    THEN /\ out' = Emit(call, <<>>, <<>>)
         /\ UNCHANGED <<_running, _stop_event, _thread, pc, acts>>
    ELSE /\ acts < MaxActions
         /\ acts' = acts + 1
         /\ _stop_event' = FALSE
         /\ _thread' = NewThread
         /\ pc' = [pc EXCEPT ![NewThread] = "while"]
         /\ _running' = TRUE
         /\ out' = Notified(StartedMsg)

\* lines 291-296: up to the join; when not running, the whole call
StopBody(call) ==
    IF StopReturnsEarly
    THEN /\ out' = Emit(call, <<>>, <<>>)
         /\ UNCHANGED <<_running, _stop_event, _thread, pc, ui, acts>>
    ELSE /\ _stop_event' = TRUE
         /\ ui' = "joining"
         /\ out' = Quiet
         /\ UNCHANGED <<_running, _thread, pc, acts>>

start_monitoring ==
    /\ ui = "idle"
    /\ StartBody("start")
    /\ UNCHANGED <<cfgs, mon, frame, ui, settings, clock>>

stop_monitoring ==
    /\ ui = "idle"
    /\ StopBody("stop")
    /\ UNCHANGED <<cfgs, mon, frame, settings, clock>>

\* lines 275-280
toggle_monitoring ==
    /\ ui = "idle"
    /\ IF _running
       THEN StopBody("stop")
       ELSE StartBody("start") /\ UNCHANGED ui
    /\ UNCHANGED <<cfgs, mon, frame, settings, clock>>

\* lines 296-298: join returns because the thread ended
StopJoined ==
    /\ ui = "joining"
    /\ Finished(_thread)
    /\ _running' = FALSE
    /\ ui' = "idle"
    /\ out' = Notified(StoppedMsg)
    /\ UNCHANGED <<cfgs, mon, _stop_event, _thread, pc, frame, settings, acts, clock>>

\* variant of StopTimedOut: after a join that timed out stop_monitoring comes
\* back without marking the monitor as not running
StopTimedOutKeepsRunning ==
    /\ ui = "joining"
    /\ Blocked(_thread)
    /\ ui' = "idle"
    /\ out' = Notified(StoppedMsg)
    /\ UNCHANGED <<cfgs, mon, _running, _stop_event, _thread, pc, frame, settings, acts, clock>>

\* lines 296-298: join(timeout=2) gives up on a thread held inside a cycle
StopTimedOut ==
    /\ ui = "joining"
    /\ Blocked(_thread)
    /\ _running' = FALSE
    /\ ui' = "idle"
    /\ out' = Notified(StoppedMsg)
    /\ UNCHANGED <<cfgs, mon, _stop_event, _thread, pc, frame, settings, acts, clock>>

\* ------------------------------------------------- settings window thread
\* lines 227-232: the form's values are written into the shared dict
SaveAssign ==
    /\ settings = "idle"
    /\ acts < MaxActions
    /\ \E d \in ConfigDicts : config' = Update(config, d)
    /\ settings' = "assigned"
    /\ acts' = acts + 1
    /\ out' = Quiet
    /\ UNCHANGED <<file, DEFAULT_CONFIG, ctl, mon, pc, frame, clock>>

\* lines 233-235: save_config(self.config); on_save hands back the same dict
SaveWrite ==
    /\ settings = "assigned"
    /\ file' = config
    /\ settings' = "idle"
    /\ out' = Quiet
    /\ UNCHANGED <<config, DEFAULT_CONFIG, ctl, mon, pc, frame, acts, clock>>

\* ------------------------------------------------------- the file on disk
\* monitor_config.json is deleted or rewritten by hand; load_config (lines
\* 145-146) reads whatever it finds there
EditFile ==
    /\ acts < MaxActions
    /\ \E f \in ExternalFiles : f # file /\ file' = f
    /\ acts' = acts + 1
    /\ out' = Quiet
    /\ UNCHANGED <<config, DEFAULT_CONFIG, ctl, mon, pc, frame, settings, clock>>

\* ------------------------------------------------------------------- time
Advance ==
    /\ \E c \in TimePoints : c > clock /\ clock' = c
    /\ out' = Quiet
    /\ UNCHANGED <<cfgs, ctl, mon, pc, frame, settings, acts>>

\* ------------------------------------------------------------------- Next
Next ==
    \/ \E t \in Threads : LoopExit(t)
    \/ \E t \in Threads : LoadConfig(t)
    \/ \E t \in Threads : TickUnavailable(t)
    \/ \E t \in Threads, s \in Samples : TickLow(t, s)
    \/ \E t \in Threads, s \in Samples : TickNotLow(t, s)
    \/ \E t \in Threads : SendReturn(t)
    \/ \E t \in Threads : SendRaise(t)
    \/ \E t \in Threads : SleepStep(t)
    \/ \E t \in Threads : ForBreak(t)
    \/ start_monitoring
    \/ stop_monitoring
    \/ toggle_monitoring
    \/ StopJoined
    \/ StopTimedOut
    \/ SaveAssign
    \/ SaveWrite
    \/ EditFile
    \/ Advance

Spec == Init /\ [][Next]_vars

\* What the scheduling gives: every started thread keeps being run, so a step
\* of _monitor_loop that stays possible is taken; a call of
\* send_telegram_async ends, by returning or by raising; join comes back,
\* when the thread has ended or when its two seconds are over.
Fairness ==
    /\ \A t \in Threads :
          /\ WF_vars(LoopExit(t))
          /\ WF_vars(LoadConfig(t))
          /\ WF_vars(TickUnavailable(t) \/ \E s \in Samples : TickLow(t, s) \/ TickNotLow(t, s))
          /\ WF_vars(SendReturn(t) \/ SendRaise(t))
          /\ WF_vars(ForBreak(t))
    /\ WF_vars(StopJoined)
    /\ WF_vars(StopTimedOut)

FairSpec == Spec /\ Fairness

\* ------------------------------------------------------------- properties
\* what a step shows of a _monitor_loop thread
InCycle(t) == pc[t] \in {"loaded", "send_low", "send_rec"}
Alive(t) == pc[t] \in {"while", "loaded", "send_low", "send_rec", "sleep"}
EmittedKind(kind) == \E i \in DOMAIN out'.notified : out'.notified[i].kind = kind
\* thread t reads a sample in this step
Evaluates(t, s) == TickLow(t, s) \/ TickNotLow(t, s)
\* thread t gets past its alert or notice in this step
EmitsBy(t, kind) == InCycle(t) /\ pc'[t] # pc[t] /\ EmittedKind(kind)
Spawned == \E t \in Threads : pc[t] = "unborn" /\ pc'[t] # "unborn"
StateCleared == (~_was_low) /\ _low_start_time = None /\ _last_alert_time = None

\* C1 - Every low episode ends with exactly one recovery notice, on the cycle
\* that ends it: a cycle that finds the low state set (_was_low) and reads a
\* sample that is plugged in or above the threshold issues a recovery notice
\* carrying that sample's percent and floor(now - _low_start_time) seconds,
\* and no other cycle issues one.
C1_RecoveryEndsEpisode ==
    [][\A t \in Threads, s \in Samples :
         /\ (_was_low /\ TickNotLow(t, s)) =>
               LET d == (clock - _low_start_time) \div Hz IN
               \/ out'.notified = <<RecMsg(s.percent, d)>>
               \/ pc'[t] = "send_rec" /\ frame'[t].info = s /\ frame'[t].duration = d
         /\ (TickLow(t, s) \/ (~_was_low /\ TickNotLow(t, s))) =>
               (~EmittedKind("recovered")) /\ pc'[t] # "send_rec"]_vars

\* C2 - A cycle that reads a plugged-in sample while the low state is set
\* issues a recovery notice whatever the percent is (also at or below the
\* threshold), and leaves the low state cleared once the notice is out.
C2_PluggedRecovery ==
    [][\A t \in Threads :
         /\ \A s \in Samples :
              (_was_low /\ s.plugged /\ TickNotLow(t, s)) =>
                 \/ pc'[t] = "send_rec" /\ frame'[t].info = s
                 \/ EmittedKind("recovered") /\ StateCleared'
         /\ (pc[t] = "send_rec" /\ frame[t].info.plugged /\ SendReturn(t)) =>
                 EmittedKind("recovered") /\ StateCleared']_vars

\* C3 - At most one _monitor_loop thread is executing at any instant.
C3_AtMostOneLoop == Cardinality({t \in Threads : Alive(t)}) <= 1

\* C4 (as stated) - While telegram_enabled is false a cycle delivers no low
\* alert and no recovery notice to any output, and still keeps the low state.
C4_NoAlertWhenDisabled ==
    [][\A t \in Threads, s \in Samples :
         ((~config["telegram_enabled"]) /\ Evaluates(t, s)) =>
             /\ out'.notified = <<>>
             /\ out'.telegram = <<>>
             /\ TickLow(t, s) => (_was_low' /\ _low_start_time' # None)]_vars

\* C4 (amended) - While telegram_enabled is false a cycle sends nothing
\* through Telegram (the local notification still goes out) and keeps the low
\* state as usual: a low sample leaves _was_low set and both timestamps
\* recorded.  Nothing reaches Telegram except from a cycle that found the
\* setting on.  So turning the setting on in the middle of an episode does not
\* by itself bring an alert: a low cycle that comes less than the resend
\* interval after the recorded alert time issues nothing.
C4_TelegramGate ==
    [][\A t \in Threads :
         /\ (pc[t] = "loaded" /\ pc'[t] # "loaded" /\ ~config["telegram_enabled"]) =>
               (~InCycle(t)') /\ out'.telegram = <<>>
         /\ \A s \in Samples :
               /\ (TickLow(t, s) /\ ~config["telegram_enabled"]) =>
                     /\ _was_low'
                     /\ _low_start_time' =
                           (IF _low_start_time = None THEN clock ELSE _low_start_time)
                     /\ _last_alert_time' # None
                     /\ (_last_alert_time = None) => out'.notified = <<LowMsg(s.percent)>>
               /\ ( /\ TickLow(t, s)
                    /\ _last_alert_time # None
                    /\ clock - _last_alert_time < frame[t].resend_seconds * Hz ) =>
                     /\ out' = Quiet
                     /\ pc'[t] # "send_low"
                     /\ _last_alert_time' = _last_alert_time
         /\ (out'.telegram # <<>> /\ pc'[t] # pc[t]) => pc[t] \in {"send_low", "send_rec"}]_vars

\* a cycle with the setting off has alerted locally, sent nothing through
\* Telegram and recorded the episode
C4_Witness ==
    /\ ~config["telegram_enabled"]
    /\ \E p \in PercentVals : out.notified = <<LowMsg(p)>>
    /\ out.telegram = <<>>
    /\ _was_low
    /\ _low_start_time # None
    /\ _last_alert_time # None

\* C5 - Two low alerts of one episode are at least the resend interval apart:
\* a low alert that goes out while the low state is set and an alert time is
\* recorded goes out no sooner than resend_seconds after that time.
C5_ResendSpacing ==
    [][\A t \in Threads :
         (EmitsBy(t, "low") /\ _was_low /\ _last_alert_time # None) =>
             clock - _last_alert_time >= frame[t].resend_seconds * Hz]_vars

\* C6 - A failing delivery never ends the loop: no _monitor_loop thread is
\* terminated by an exception of send_telegram_async.
C6_LoopSurvivesDelivery == \A t \in Threads : pc[t] # "crashed"

\* C7 - Each start of monitoring begins with an empty low state: right after
\* start_monitoring has started a thread, _was_low is false and both
\* timestamps are None.
C7_FreshStateOnStart == (out.notified = <<StartedMsg>>) => StateCleared

\* C8 - start_monitoring while running and stop_monitoring while not running
\* do nothing.  While _running no step creates a thread, emits "started",
\* replaces _thread or clears the stop event; while not running no step sets
\* the stop event, waits for a thread or emits "stopped"; and a call that
\* returns at its first test changes nothing at all.
C8_RedundantCallsAreNoOps ==
    [][/\ _running =>
            /\ ~Spawned
            /\ ~EmittedKind("started")
            /\ _thread' = _thread
            /\ _stop_event => _stop_event'
       /\ (~_running) =>
            /\ _stop_event' => (_stop_event /\ ~Spawned)
            /\ ui' = "idle"
            /\ ~EmittedKind("stopped")
       /\ (out'.noop \in {"start", "stop"}) =>
            /\ out'.noop = (IF _running THEN "start" ELSE "stop")
            /\ out'.notified = <<>> /\ out'.telegram = <<>>
            /\ UNCHANGED <<cfgs, ctl, mon, pc, frame, settings, acts, clock>>]_vars

\* start_monitoring was called while a thread was running and returned at once
C8_Witness ==
    /\ out.noop = "start"
    /\ _running
    /\ _thread # None
    /\ Cardinality({t \in Threads : pc[t] # "unborn"}) = 1

\* C9 - Once _was_low is set it stays set until a cycle reads a sample that is
\* plugged in or above the threshold: a step takes _was_low from true to
\* false only if it is such a cycle (or the end of such a cycle's send).
C9_LowUntilRecovered ==
    [][(_was_low /\ ~_was_low') =>
          \E t \in Threads :
             \/ \E s \in Samples :
                   /\ s.plugged \/ s.percent > frame[t].threshold
                   /\ TickNotLow(t, s)
             \/ /\ pc[t] = "send_rec"
                /\ frame[t].info.plugged \/ frame[t].info.percent > frame[t].threshold
                /\ SendReturn(t)]_vars

\* an episode that lasted over several low cycles: it began at one instant and
\* alerted again at a later one, with _was_low set throughout
C9_Witness ==
    /\ _was_low
    /\ _low_start_time # None
    /\ _last_alert_time # None
    /\ _last_alert_time > _low_start_time
    /\ \E p \in PercentVals : out.notified = <<LowMsg(p)>>

\* C10 - No invalid configuration reaches the loop: the values a cycle works
\* with are a threshold of 0..100, a positive interval and a resend time that
\* is not negative.
C10_ValidConfigInLoop ==
    \A t \in Threads :
        pc[t] = "loaded" =>
            /\ frame[t].threshold \in 0..100
            /\ frame[t].interval > 0
            /\ frame[t].resend_seconds >= 0

\* thread t, already started, moves in this step
StepBy(t) == pc[t] # "unborn" /\ pc'[t] # pc[t]

\* C11 - The loop never writes the shared configuration and a save is never
\* lost: no step of a _monitor_loop thread changes self.config or the file,
\* so what SettingsWindow.save assigned is what it writes and what stays.
C11_LoopLeavesConfigAlone ==
    [][\A t \in Threads : StepBy(t) => (config' = config /\ file' = file)]_vars

\* C12 - A cycle works on one snapshot of the configuration taken at its
\* start: while a thread stands between reading the configuration and
\* evaluating its sample, neither its locals nor the telegram_enabled value
\* it is going to use change.
C12_CycleUsesOneSnapshot ==
    [][\A t \in Threads :
         (pc[t] = "loaded" /\ pc'[t] = "loaded") =>
             /\ frame'[t] = frame[t]
             /\ TelegramEnabled' = TelegramEnabled]_vars

\* C13 - A cycle that gets no battery information leaves _was_low,
\* _low_start_time and _last_alert_time as they were, emits nothing, and the
\* thread goes on to its sleep (or, with nothing to sleep, to the next while
\* test) with the interval it loaded.
C13_SensorUnavailableKeepsState ==
    [][\A t \in Threads :
         (pc[t] = "loaded" /\ pc'[t] # "loaded" /\ out'.noop = "no_battery") =>
             /\ UNCHANGED mon
             /\ out'.notified = <<>> /\ out'.telegram = <<>>
             /\ pc'[t] = (IF frame[t].interval > 0 THEN "sleep" ELSE "while")
             /\ (pc'[t] = "sleep") => (frame'[t].interval = frame[t].interval)]_vars

\* in the middle of a low episode a cycle got no battery information and the
\* thread is sleeping, the episode still on record
C13_Witness ==
    /\ out.noop = "no_battery"
    /\ _was_low
    /\ _low_start_time # None
    /\ _last_alert_time # None
    /\ \E t \in Threads : pc[t] = "sleep"

\* C14 - stop_monitoring called while running always comes back with _running
\* false and "stopped" notified, whether the thread ended within join's two
\* seconds or not; and a loop that finds the stop event set begins no further
\* cycle (at the while test it ends, in its sleep it breaks off without
\* sleeping on) and in the end has exited, unless a later start clears the
\* event.
C14_StopReturnsAndLoopExits ==
    /\ [][/\ (_running /\ ui = "idle" /\ ui' = "joining") => _stop_event'
          /\ (ui = "joining" /\ ui' # "joining") =>
                /\ ui' = "idle"
                /\ ~_running'
                /\ out'.notified = <<StoppedMsg>>
          /\ \A t \in Threads :
                /\ (_stop_event /\ pc[t] = "while" /\ StepBy(t)) => pc'[t] = "done"
                /\ (_stop_event /\ pc[t] = "sleep" /\ StepBy(t)) =>
                      (pc'[t] = "while" /\ clock' = clock)]_vars
    /\ (ui = "joining") ~> (ui = "idle" /\ ~_running)
    /\ \A t \in Threads :
          (_stop_event /\ Alive(t)) ~> (Finished(t) \/ ~_stop_event)

\* stop_monitoring has come back, monitoring marked as stopped, while the
\* thread it waited for is still inside send_telegram_async
C14_Witness ==
    /\ out.notified = <<StoppedMsg>>
    /\ ~_running
    /\ ui = "idle"
    /\ _stop_event
    /\ _thread # None
    /\ Blocked(_thread)

\* C15 - load_config gives every field that is missing from the file it reads
\* its built-in default, whatever earlier calls loaded: after a cycle's
\* load_config the dict it returned (DEFAULT_CONFIG) holds the value of
\* Defaults for each key the file does not have.
C15_MissingFieldsDefault ==
    [][\A t \in Threads :
         (pc[t] = "while" /\ pc'[t] = "loaded") =>
             \A k \in Keys \ DOMAIN file : DEFAULT_CONFIG'[k] = Defaults[k]]_vars

\* C16 - On a cycle that reads an unplugged sample at or below the threshold a
\* low alert goes out if and only if no alert time is recorded or at least
\* resend_seconds have passed since it, and when it goes out
\* _last_alert_time becomes the time the cycle read; a cycle that decided to
\* alert does get its alert out.
C16_AlertIffDue ==
    [][\A t \in Threads :
         /\ \A s \in Samples :
              TickLow(t, s) =>
                 LET due == \/ _last_alert_time = None
                            \/ clock - _last_alert_time >= frame[t].resend_seconds * Hz
                 IN  /\ due <=> (out'.notified = <<LowMsg(s.percent)>> \/ pc'[t] = "send_low")
                     /\ (out'.notified = <<LowMsg(s.percent)>>) => _last_alert_time' = clock
                     /\ (~due) => (out' = Quiet /\ _last_alert_time' = _last_alert_time)
         /\ (pc[t] = "send_low" /\ pc'[t] # "send_low") =>
                 /\ out'.notified = <<LowMsg(frame[t].info.percent)>>
                 /\ _last_alert_time' = frame[t].now]_vars

\* C17 - At every cycle boundary _low_start_time is set exactly when _was_low
\* is true, and once a cycle that read a plugged-in sample is over, _was_low,
\* _low_start_time and _last_alert_time are all empty.
C17_LowSinceIffLowAndPluggedClears ==
    [][/\ (_low_start_time' # None) <=> _was_low'
       /\ \A t \in Threads :
            /\ \A s \in Samples :
                 (s.plugged /\ Evaluates(t, s) /\ ~InCycle(t)') => StateCleared'
            /\ (pc[t] = "send_rec" /\ frame[t].info.plugged /\ pc'[t] # "send_rec") =>
                 StateCleared']_vars

\* C18 - A cycle that reads a plugged-in sample never issues a low alert and
\* never leaves _was_low true, also when the percent is at or below the
\* threshold: being plugged in is looked at before the percent.
C18_PluggedIsNeverLow ==
    [][\A t \in Threads :
         /\ \A s \in Samples :
              (s.plugged /\ Evaluates(t, s)) =>
                  /\ ~EmittedKind("low")
                  /\ pc'[t] # "send_low"
                  /\ (~InCycle(t)') => ~_was_low'
         /\ (pc[t] = "send_rec" /\ frame[t].info.plugged /\ pc'[t] # "send_rec") =>
                  (~EmittedKind("low")) /\ ~_was_low']_vars

\* C19 - A cycle emits at most one alert: its only emission comes in the step
\* that ends its evaluation, that emission is a single message (a low alert
\* or a recovery notice, never both, never twice), Telegram gets the same
\* message at most once, and the steps before (reading the configuration,
\* entering the send) emit nothing.
C19_OneAlertPerCycle ==
    [][\A t \in Threads :
         /\ (InCycle(t) /\ InCycle(t)' /\ pc'[t] # pc[t]) => out' = Quiet
         /\ (pc[t] = "while" /\ StepBy(t)) => out' = Quiet
         /\ (InCycle(t) /\ ~InCycle(t)') =>
               /\ Len(out'.notified) <= 1
               /\ Len(out'.telegram) <= 1
               /\ \A i \in DOMAIN out'.notified :
                     out'.notified[i].kind \in {"low", "recovered"}
               /\ \A i \in DOMAIN out'.telegram : out'.telegram[i] = out'.notified[i]
               /\ (pc[t] = "send_low" /\ out'.notified # <<>>) => EmittedKind("low")
               /\ (pc[t] = "send_rec" /\ out'.notified # <<>>) => EmittedKind("recovered")]_vars

\* a cycle has ended with its one recovery notice, notified and sent once
C19_Witness ==
    /\ Len(out.notified) = 1
    /\ out.notified[1].kind = "recovered"
    /\ out.telegram = out.notified
    /\ ~_was_low

\* C20 - _last_alert_time is cleared only by a cycle that read a plugged-in
\* sample, not by an unplugged recovery, so the resend throttle spans
\* episodes: the first low cycle of a new episode (_was_low false) that comes
\* less than resend_seconds after the recorded alert time issues no alert,
\* though it opens the episode.
C20_ThrottleSpansEpisodes ==
    [][/\ (_last_alert_time # None /\ _last_alert_time' = None) =>
            \E t \in Threads :
               \/ \E s \in Samples : s.plugged /\ TickNotLow(t, s)
               \/ pc[t] = "send_rec" /\ frame[t].info.plugged /\ SendReturn(t)
       /\ \A t \in Threads, s \in Samples :
            ( /\ TickLow(t, s)
              /\ ~_was_low
              /\ _last_alert_time # None
              /\ clock - _last_alert_time < frame[t].resend_seconds * Hz ) =>
                /\ out' = Quiet
                /\ pc'[t] # "send_low"
                /\ _last_alert_time' = _last_alert_time
                /\ _was_low' /\ _low_start_time' = clock]_vars

\* a new episode has begun after the last alert and inside its resend window,
\* with no alert of its own
C20_Witness ==
    /\ _was_low
    /\ _last_alert_time # None
    /\ _low_start_time # None
    /\ _low_start_time > _last_alert_time
    /\ out = Quiet

\* C21 - A recovery notice is issued only by a cycle that found _was_low set
\* and read a percent above the threshold it loaded at its start: a cycle
\* that finds _was_low false issues none, a thread is inside the send of a
\* recovery notice only with such a sample, and every recovery notice that
\* goes out comes from a cycle and carries a percent strictly above that
\* cycle's threshold.
C21_RecoveryOnlyFromLowAboveThreshold ==
    [][/\ \A t \in Threads :
            /\ \A s \in Samples :
                 (Evaluates(t, s) /\ (EmittedKind("recovered") \/ pc'[t] = "send_rec")) =>
                     /\ _was_low
                     /\ s.percent > frame[t].threshold
                     /\ EmittedKind("recovered") =>
                           \A i \in DOMAIN out'.notified : out'.notified[i].percent = s.percent
                     /\ (pc'[t] = "send_rec") =>
                           /\ frame'[t].info = s
                           /\ frame'[t].threshold = frame[t].threshold
            /\ (pc[t] = "loaded" /\ pc'[t] # "loaded" /\ ~_was_low) =>
                     (~EmittedKind("recovered")) /\ pc'[t] # "send_rec"
            /\ (pc[t] = "send_rec" /\ pc'[t] # "send_rec" /\ EmittedKind("recovered")) =>
                     \A i \in DOMAIN out'.notified :
                        /\ out'.notified[i].percent = frame[t].info.percent
                        /\ out'.notified[i].percent > frame[t].threshold
       /\ EmittedKind("recovered") =>
            \E t \in Threads : pc[t] \in {"loaded", "send_rec"} /\ pc'[t] # pc[t]]_vars

\* a cycle that found the low state set and read a percent above the
\* threshold has issued its recovery notice locally
C21_Witness ==
    /\ Len(out.notified) = 1
    /\ out.notified[1].kind = "recovered"
    /\ out.notified[1].percent > DefaultThreshold
    /\ out.notified[1].duration # None
    /\ out.telegram = <<>>
    /\ ~_was_low
    /\ _low_start_time = None
====
